---- MODULE Spec2Model ----
(***************************************************************************)
(* PastePortal REST listener: the submission handler (post.py), the        *)
(* retrieval handler (get.py) and the DynamoDB table they share.           *)
(*                                                                         *)
(* Strings whose characters matter (the paste text, the ids) are sequences *)
(* of one-character strings; strings that are only carried around (user    *)
(* names, message texts, exception texts) are TLA+ strings.                *)
(***************************************************************************)
EXTENDS Integers, Sequences, FiniteSets, TLC

\* ------------------------------------------------------------------ bounds
MaxPasteLen == 1   \* longest paste text submitted
MaxDraw == 2       \* number of distinct values random.randint returns
MaxTime == 1       \* number of distinct clock readings
MaxParams == 2     \* most query-string parameters in one retrieval request

\* -------------------------------------------------------- program constants
RandMax == 16777215
IdWidth == 6
StatusMin == 100
StatusMax == 599

\* ------------------------------------------------------------ input domains
SeqsUpTo(S, n) == UNION {[1..k -> S] : k \in 0..n}

PasteChars == {"a", "'"}
Pastes == SeqsUpTo(PasteChars, MaxPasteLen) \ {<<>>}

\* JSON values a client may put under "paste"
JStr(s) == [t |-> "str", v |-> s]
JNull == [t |-> "null", v |-> <<>>]
JNum == [t |-> "num", v |-> <<"5">>]
PasteValues == {JStr(p) : p \in Pastes} \cup {JNull, JNum}

Creators == {"alice"}
Recipients == {"bob"}
Fields == {"paste", "creator_gh_user", "recipient_gh_username"}

\* values random.randint(0, 16777215) returns in the model: the two ends of
\* the range first, then values with 1, 2, ... leading zeros fewer than 000000
DrawAt(i) == IF i = 1 THEN 0 ELSE IF i = 2 THEN RandMax ELSE (16 ^ (i - 2) + 10) % (RandMax + 1)
Draws == {DrawAt(i) : i \in 1..MaxDraw}

\* readings of datetime.now()
Clock == 1..MaxTime

\* ----------------------------------------------------------- pure functions
HexDigits == <<"0", "1", "2", "3", "4", "5", "6", "7",
               "8", "9", "a", "b", "c", "d", "e", "f">>

\* hex(n)[2:] : the lowercase hexadecimal digits of n, no leading zeros
RECURSIVE hex(_)
hex(n) == IF n < 16 THEN <<HexDigits[n + 1]>>
          ELSE Append(hex(n \div 16), HexDigits[(n % 16) + 1])

\* s.zfill(width) : pad on the left with "0" up to width
RECURSIVE zfill(_, _)
zfill(s, width) == IF Len(s) >= width THEN s ELSE zfill(<<"0">> \o s, width)

\* mutant: the id without the zero padding
generate_id_nopad(n) == hex(n)

\* id = hex(random.randint(0, 16777215))[2:].zfill(6)
generate_id(n) == zfill(hex(n), IdWidth)

\* now.isoformat()
isoformat(now) == [iso |-> now]

\* paste.replace("'", "''")
RECURSIVE replace(_)
replace(s) == IF s = <<>> THEN <<>>
              ELSE (IF Head(s) = "'" THEN <<"'", "'">> ELSE <<Head(s)>>)
                   \o replace(Tail(s))

\* str(x) of a JSON value
str(x) == IF x.t = "null" THEN <<"N", "o", "n", "e">> ELSE x.v

\* exceptions
Exc(type, text) == [type |-> type, text |-> text]
NoExc == Exc("none", "")

\* generate_banter_comment(): the joke is cosmetic; one token stands for it
generate_banter_comment == "banter"

\* ------------------------------------------------------------------ requests
\* event["body"] of a submission: the key may be absent, the value may be
\* null, text that is not JSON, JSON that is not an object, or a JSON object
\* holding the fields named in has
Body(kind, has, paste, creator, recipient) ==
    [kind |-> kind, has |-> has, paste |-> paste,
     creator_gh_user |-> creator, recipient_gh_username |-> recipient]
NoBody == Body("absent", {}, JNull, "", "")
FullBodies == {Body("object", Fields, p, c, r) :
                 p \in PasteValues, c \in Creators, r \in Recipients}
PartialBodies == {Body("object", h, JStr(<<"a">>), c, r) :
                    h \in (SUBSET Fields) \ {Fields}, c \in Creators, r \in Recipients}
Bodies == {NoBody, Body("null", {}, JNull, "", ""), Body("malformed", {}, JNull, "", ""),
           Body("number", {}, JNull, "", "")} \cup PartialBodies \cup FullBodies

\* os.environ: TABLE_NAME is set or it is not
Environs == [TABLE_NAME : BOOLEAN]

\* what the DynamoDB client does on a put_item
PutConds == {"ok", "client_fail", "table_not_found", "error", "status_500"}

\* ----------------------------------------------------------------- responses
\* the message handed to generate_response is a dict or a str
Dict(d) == [dict |-> TRUE, val |-> d]
Text(s) == [dict |-> FALSE, val |-> s]

NoResponse == [statusCode |-> 0, body |-> [key |-> "none", value |-> ""], headers |-> <<>>]

post_headers == ("Content-Type" :> "application/json") @@
                ("Access-Control-Allow-Origin" :> "*") @@
                ("Secret" :> "Writen by ChatGPT-3")

\* post.py generate_response: body is the JSON encoding of {"response": message}
\* or, when the arguments are rejected, of {"error": str(e)} with status 400
post_generate_response(status_code, message) ==
    IF ~(StatusMin <= status_code /\ status_code <= StatusMax)
    THEN [statusCode |-> 400, body |-> [key |-> "error", value |-> "Invalid status code"],
          headers |-> post_headers]
    ELSE IF ~message.dict
    THEN [statusCode |-> 400, body |-> [key |-> "error", value |-> "Invalid message"],
          headers |-> post_headers]
    ELSE [statusCode |-> status_code, body |-> [key |-> "response", value |-> message.val],
          headers |-> post_headers]

\* ------------------------------------------------------------ store adapter
\* one item of the table, as put_item receives it
Item(id, timestamp, creator, recipient, paste) ==
    [id |-> [S |-> id], timestamp |-> [S |-> timestamp],
     creator_gh_user |-> [S |-> creator], recipient_gh_username |-> [S |-> recipient],
     paste |-> [S |-> paste]]

\* mutant: a write that leaves only the new item in the table
put_item_replaces_table(store, item) == [k \in {item.id.S} |-> item]

\* client.put_item(TableName, Item): the item replaces whatever was under its key
put_item(store, item) ==
    [k \in DOMAIN store \cup {item.id.S} |-> IF k = item.id.S THEN item ELSE store[k]]

\* post.py db_input. The caller always passes id, timestamp and table_name,
\* so the three "is None" defaults are never taken.
db_input(table_name, id, paste, timestamp, creator_gh_user, recipient_gh_username, cond, store) ==
    IF cond = "client_fail"
    THEN \* boto3.client raised: the first except clause reads the unbound
         \* local client, and that UnboundLocalError leaves the function
         [raised |-> Exc("UnboundLocalError",
                         "local variable 'client' referenced before assignment"),
          ret |-> FALSE, store |-> store, puts |-> 0]
    ELSE IF paste.t = "num"
    THEN \* paste.replace raises AttributeError, caught by except Exception
         [raised |-> NoExc, ret |-> FALSE, store |-> store, puts |-> 0]
    ELSE LET escaped == IF paste.t # "null" THEN JStr(replace(paste.v)) ELSE paste
             item == Item(id, timestamp, creator_gh_user, recipient_gh_username, str(escaped))
         IN  IF cond = "ok"
             THEN [raised |-> NoExc, ret |-> TRUE, store |-> put_item(store, item), puts |-> 1]
             ELSE \* ResourceNotFoundException, another exception, or a
                  \* response whose HTTPStatusCode is not 200
                  [raised |-> NoExc, ret |-> FALSE, store |-> store, puts |-> 1]

\* --------------------------------------------------------- submission handler
MissingFieldsText == "Missing required fields: paste, creator_gh_user, recipient_gh_username"
InsertedText == "The paste was successfully inserted into the database"

\* what one invocation did, for the properties to read: the id it handed to
\* the store adapter, the exception its own handler caught, whether the
\* adapter was called and returned or raised, how the DynamoDB client behaved,
\* what the adapter returned, and how many put_item and get_item calls it made
Obs(id, caught, adapter, cond, ret, puts, gets) ==
    [id |-> id, caught |-> caught, adapter |-> adapter, cond |-> cond, ret |-> ret,
     puts |-> puts, gets |-> gets]
NoObs == Obs(<<>>, NoExc, "not_called", "unused", FALSE, 0, 0)

\* mutant: the handler looks at what db_input returned and answers 500 on False
post_persist_checked(id, timestamp, body, cond, store) ==
    LET r == db_input("table", id, body.paste, timestamp,
                      body.creator_gh_user, body.recipient_gh_username, cond, store)
    IN  IF r.raised # NoExc
        THEN [exc |-> r.raised, response |-> NoResponse, store |-> r.store,
              obs |-> Obs(id, NoExc, "raised", cond, FALSE, r.puts, 0)]
        ELSE [exc |-> NoExc,
              response |-> IF r.ret
                           THEN post_generate_response(200, Dict(
                                  [message |-> InsertedText, id |-> id, timestamp |-> timestamp,
                                   raw_data |-> body, paste |-> str(body.paste),
                                   joke |-> generate_banter_comment]))
                           ELSE post_generate_response(500, Dict(
                                  [message |-> "The paste could not be stored",
                                   joke |-> generate_banter_comment])),
              store |-> r.store,
              obs |-> Obs(id, NoExc, "returned", cond, r.ret, r.puts, 0)]

\* post.py post_request, lines 55-69: read the three fields, call db_input
\* without looking at what it returns, answer 200. exc is the exception that
\* left db_input, if one did.
post_persist(id, timestamp, body, cond, store) ==
    LET r == db_input("table", id, body.paste, timestamp,
                      body.creator_gh_user, body.recipient_gh_username, cond, store)
    IN  IF r.raised # NoExc
        THEN [exc |-> r.raised, response |-> NoResponse, store |-> r.store,
              obs |-> Obs(id, NoExc, "raised", cond, FALSE, r.puts, 0)]
        ELSE [exc |-> NoExc,
              response |-> post_generate_response(200, Dict(
                  [message |-> InsertedText, id |-> id, timestamp |-> timestamp,
                   raw_data |-> body, paste |-> str(body.paste),
                   joke |-> generate_banter_comment])),
              store |-> r.store,
              obs |-> Obs(id, NoExc, "returned", cond, r.ret, r.puts, 0)]

\* post.py post_request, the try block (lines 39-69)
post_try(event, environ, rnd, now, cond, store) ==
    LET id == generate_id(rnd)
        timestamp == isoformat(now)
        body == event.body
        raise(e) == [exc |-> e, response |-> NoResponse, store |-> store, obs |-> NoObs]
    IN  IF body.kind = "absent"
        THEN raise(Exc("KeyError", "'body'"))
        ELSE IF ~environ.TABLE_NAME
        THEN raise(Exc("KeyError", "'TABLE_NAME'"))
        ELSE IF body.kind = "null"
        THEN raise(Exc("TypeError",
                       "the JSON object must be str, bytes or bytearray, not NoneType"))
        ELSE IF body.kind = "malformed"
        THEN raise(Exc("JSONDecodeError", "Expecting value: line 1 column 1 (char 0)"))
        ELSE IF body.kind = "number"
        THEN raise(Exc("TypeError", "argument of type 'int' is not iterable"))
        ELSE IF Fields \ body.has # {}
        THEN [exc |-> NoExc,
              response |-> post_generate_response(400, Text(MissingFieldsText)),
              store |-> store, obs |-> NoObs]
        ELSE post_persist(id, timestamp, body, cond, store)

\* post.py post_request: the try block, and
\* except Exception as e: return generate_response(500, str(e))
post_request(event, environ, rnd, now, cond, store) ==
    LET t == post_try(event, environ, rnd, now, cond, store)
    IN  IF t.exc # NoExc
        THEN [raised |-> NoExc,
              response |-> post_generate_response(500, Text(t.exc.text)),
              store |-> t.store,
              obs |-> [t.obs EXCEPT !.caught = t.exc]]
        ELSE [raised |-> NoExc, response |-> t.response, store |-> t.store, obs |-> t.obs]

\* ---------------------------------------------------------- retrieval handler
\* event["queryStringParameters"]: the key may be absent, the value may be
\* null (a request without parameters), or a dict, kept as the sequence of its
\* (name, value) pairs in insertion order
QueryKeys == {"id", "ID", "foo"}
QueryValues == {generate_id(n) : n \in Draws}
Param(k, v) == [k |-> k, v |-> v]
\* the value of a parameter that is not an id is never read
Params == {Param(k, v) : k \in {"id", "ID"}, v \in QueryValues} \cup {Param("foo", <<"x">>)}
QueryDicts == {d \in SeqsUpTo(Params, MaxParams) :
                 \A i, j \in DOMAIN d : i # j => d[i].k # d[j].k}
QS(kind, items) == [kind |-> kind, items |-> items]
NoQS == QS("absent", <<>>)
Queries == {NoQS, QS("null", <<>>)} \cup {QS("dict", d) : d \in QueryDicts}

\* what the DynamoDB client does on a get_item
GetConds == {"ok", "client_fail", "error"}

\* k.lower()
lower(k) == IF k = "ID" THEN "id" ELSE k

\* d[k] = v on an insertion-ordered dict
dict_set(d, k, v) ==
    IF \E i \in DOMAIN d : d[i].k = k
    THEN [i \in DOMAIN d |-> IF d[i].k = k THEN Param(k, v) ELSE d[i]]
    ELSE Append(d, Param(k, v))

\* d[k]
dict_get(d, k) == d[CHOOSE i \in DOMAIN d : d[i].k = k].v

\* {k.lower(): v for k, v in queryStringParameters.items()}
RECURSIVE lower_keys(_, _)
lower_keys(items, acc) ==
    IF items = <<>> THEN acc
    ELSE lower_keys(Tail(items), dict_set(acc, lower(Head(items).k), Head(items).v))

get_headers == ("Content-Type" :> "application/json") @@
               ("Access-Control-Allow-Origin" :> "'127.0.0.1'") @@
               ("Access-Control-Allow-Headers" :>
                  "'Content-Type,X-Amz-Date,Authorization,X-Api-Key,X-Amz-Security-Token'") @@
               ("Access-Control-Allow-Methods" :> "'GET,OPTIONS'") @@
               ("Access-Control-Allow-Credentials" :> "'true'") @@
               ("Secret" :> "Writen by ChatGPT-3")

\* get.py generate_response
get_generate_response(status_code, message) ==
    IF ~(StatusMin <= status_code /\ status_code <= StatusMax)
    THEN [statusCode |-> 400, body |-> [key |-> "error", value |-> "Invalid status code"],
          headers |-> post_headers]
    ELSE IF ~message.dict
    THEN [statusCode |-> 400, body |-> [key |-> "error", value |-> "Invalid message"],
          headers |-> post_headers]
    ELSE [statusCode |-> status_code, body |-> [key |-> "response", value |-> message.val],
          headers |-> get_headers]

\* get.py export_item_values: item_dict[key] = value["S"]
export_item_values(item) == [key \in DOMAIN item |-> item[key].S]

\* the result of db_output: a dict of the item's values, or None
Some(d) == [found |-> TRUE, val |-> d]
None == [found |-> FALSE, val |-> <<>>]

\* mutant: a failure of get_item is not caught
db_output_uncaught(table_name, id, cond, store) ==
    IF cond = "client_fail"
    THEN [raised |-> NoExc, ret |-> None, gets |-> 0]
    ELSE IF cond = "error"
    THEN [raised |-> Exc("ClientError", "An error occurred when calling the GetItem operation"),
          ret |-> None, gets |-> 1]
    ELSE IF id \notin DOMAIN store
    THEN [raised |-> NoExc, ret |-> None, gets |-> 1]
    ELSE [raised |-> NoExc, ret |-> Some([key \in DOMAIN store[id] |-> store[id][key].S]), gets |-> 1]

\* get.py db_output: every exception of the try block is caught and None returned
db_output(table_name, id, cond, store) ==
    IF cond = "client_fail"
    THEN [raised |-> NoExc, ret |-> None, gets |-> 0]
    ELSE IF cond = "error"
    THEN [raised |-> NoExc, ret |-> None, gets |-> 1]
    ELSE IF id \notin DOMAIN store
    THEN \* "Item" not in response: ValueError, caught
         [raised |-> NoExc, ret |-> None, gets |-> 1]
    ELSE [raised |-> NoExc, ret |-> Some(export_item_values(store[id])), gets |-> 1]

ParameterText == "The paste was unsuccessfully retrived from the database. Parameter is not correct"
NotFoundText == "The paste was unsuccessfully retrived from the database"
RetrievedText == "The paste was successfully retrived from the database"

get_request(event, environ, cond, store) ==
    LET qs == event.queryStringParameters
        \* nothing in get_request catches: the exception leaves the handler
        raise(e) == [raised |-> e, response |-> NoResponse, obs |-> NoObs]
    IN  IF qs.kind = "absent"
        THEN raise(Exc("KeyError", "'queryStringParameters'"))
        ELSE IF qs.kind = "null"
        THEN raise(Exc("AttributeError", "'NoneType' object has no attribute 'items'"))
        ELSE LET queryStringParameters == lower_keys(qs.items, <<>>)
             IN  IF queryStringParameters = <<>>
                 THEN raise(Exc("IndexError", "list index out of range"))
                 ELSE IF ~environ.TABLE_NAME
                 THEN raise(Exc("KeyError", "'TABLE_NAME'"))
                 ELSE IF queryStringParameters[1].k # "id" \/ Len(queryStringParameters) # 1
                 THEN [raised |-> NoExc,
                       response |-> get_generate_response(400, Dict(
                           [message |-> ParameterText, joke |-> generate_banter_comment])),
                       obs |-> NoObs]
                 ELSE LET id == dict_get(queryStringParameters, "id")
                          r == db_output("table", id, cond, store)
                          returned_data == r.ret
                          obs == Obs(id, NoExc, IF r.raised = NoExc THEN "returned" ELSE "raised",
                                     cond, returned_data.found, 0, r.gets)
                      IN  IF r.raised # NoExc
                          THEN [raised |-> r.raised, response |-> NoResponse, obs |-> obs]
                          ELSE IF ~returned_data.found
                          THEN [raised |-> NoExc,
                                response |-> get_generate_response(400, Dict(
                                    [message |-> NotFoundText, id |-> "Not Found",
                                     joke |-> generate_banter_comment])),
                                obs |-> obs]
                          ELSE [raised |-> NoExc,
                                response |-> get_generate_response(200, Dict(
                                    [message |-> RetrievedText,
                                     id |-> returned_data.val.id,
                                     paste |-> returned_data.val.paste,
                                     joke |-> generate_banter_comment,
                                     creator_gh_user |-> returned_data.val.creator_gh_user,
                                     recipient_gh_username |-> returned_data.val.recipient_gh_username])),
                                obs |-> obs]

\* ------------------------------------------------------------- state machine
VARIABLES
    store,      \* the DynamoDB table: id -> item
    op,         \* the handler that has just run, "post" or "get"; "idle" between invocations
    event,      \* the event of that invocation
    environ,    \* os.environ of that invocation
    result,     \* what that invocation returned or raised
    obs,        \* what that invocation did
    submitted   \* history: id -> body of the submission whose write last succeeded under it

vars == <<store, op, event, environ, result, obs, submitted>>

Event(body, qs) == [body |-> body, queryStringParameters |-> qs]

Init ==
    /\ store = <<>>
    /\ op = "idle"
    /\ event = Event(NoBody, NoQS)
    /\ environ = [TABLE_NAME |-> TRUE]
    /\ result = [raised |-> NoExc, response |-> NoResponse]
    /\ obs = NoObs
    /\ submitted = <<>>

\* The random draw, the clock reading and the behaviour of the DynamoDB client
\* are chosen for the invocations that hand an id to the store adapter; for
\* the others they do not reach the response or the table, and one choice
\* stands for all.
PostApply(ev, e, r) ==
    /\ store' = r.store
    /\ op' = "post"
    /\ event' = ev
    /\ environ' = e
    /\ result' = [raised |-> r.raised, response |-> r.response]
    /\ obs' = r.obs
    /\ submitted' = IF r.obs.adapter = "returned" /\ r.obs.ret
                    THEN [k \in DOMAIN submitted \cup {r.obs.id} |->
                            IF k = r.obs.id THEN ev.body ELSE submitted[k]]
                    ELSE submitted

\* post.py lambda_handler
post_lambda_handler ==
    /\ op = "idle"
    /\ \E b \in Bodies, e \in Environs :
        \E pre \in {post_request(Event(b, NoQS), e, DrawAt(1), 1, "ok", store)} :
            IF pre.obs.adapter = "not_called"
            THEN PostApply(Event(b, NoQS), e, pre)
            ELSE \E rnd \in Draws, now \in Clock, cond \in PutConds :
                    \E r \in {post_request(Event(b, NoQS), e, rnd, now, cond, store)} :
                        PostApply(Event(b, NoQS), e, r)

GetApply(ev, e, r) ==
    /\ op' = "get"
    /\ event' = ev
    /\ environ' = e
    /\ result' = [raised |-> r.raised, response |-> r.response]
    /\ obs' = r.obs
    /\ UNCHANGED <<store, submitted>>

\* get.py lambda_handler
get_lambda_handler ==
    /\ op = "idle"
    /\ \E q \in Queries, e \in Environs :
        \E pre \in {get_request(Event(NoBody, q), e, "ok", store)} :
            IF pre.obs.adapter = "not_called"
            THEN GetApply(Event(NoBody, q), e, pre)
            ELSE \E cond \in GetConds :
                    \E r \in {get_request(Event(NoBody, q), e, cond, store)} :
                        GetApply(Event(NoBody, q), e, r)

\* the handler's return value (or its exception) goes to the platform and the
\* invocation is over: nothing of it stays in the process, only the table does
invocation_end ==
    /\ op # "idle"
    /\ op' = "idle"
    /\ event' = Event(NoBody, NoQS)
    /\ environ' = [TABLE_NAME |-> TRUE]
    /\ result' = [raised |-> NoExc, response |-> NoResponse]
    /\ obs' = NoObs
    /\ UNCHANGED <<store, submitted>>

Next == post_lambda_handler \/ get_lambda_handler \/ invocation_end

Spec == Init /\ [][Next]_vars

\* ------------------------------------------------------------------ properties
\* the text a response carries: the message of {"response": {...}} or the
\* string of {"error": "..."}
CarriesText(response, text) ==
    IF response.body.key = "response" THEN response.body.value.message = text
    ELSE response.body.value = text

\* a response envelope: a status code in range and a JSON body
WellFormed(response) ==
    /\ response.statusCode \in StatusMin..StatusMax
    /\ response.body.key \in {"response", "error"}

\* the query parameters of the last retrieval, names lowercased
Lowered == lower_keys(event.queryStringParameters.items, <<>>)

\* the lowercased names of the last retrieval's parameters are exactly {id}
KeySetIsId ==
    /\ event.queryStringParameters.kind = "dict"
    /\ {Lowered[i].k : i \in DOMAIN Lowered} = {"id"}

\* the last submission's body is a JSON object that has the three fields
HasAllFields == event.body.kind = "object" /\ Fields \subseteq event.body.has

HexChars == {HexDigits[i] : i \in DOMAIN HexDigits}
Attributes == {"id", "paste", "timestamp", "creator_gh_user", "recipient_gh_username"}

\* C1: a retrieval, with the table configured and reachable, by an id under
\* which a submission with a string paste was last stored answers 200 with
\* the submitted paste, creator_gh_user and recipient_gh_username, whatever
\* characters the paste has.
C1_RoundTrip ==
    (/\ op = "get" /\ environ.TABLE_NAME /\ KeySetIsId
     /\ obs.adapter = "returned" /\ obs.cond = "ok"
     /\ obs.id \in DOMAIN submitted
     /\ submitted[obs.id].paste.t = "str")
    => /\ result.raised = NoExc
       /\ result.response.statusCode = 200
       /\ result.response.body.value.paste = submitted[obs.id].paste.v
       /\ result.response.body.value.creator_gh_user = submitted[obs.id].creator_gh_user
       /\ result.response.body.value.recipient_gh_username
            = submitted[obs.id].recipient_gh_username

\* C2: a submission whose JSON object lacks one of the three fields is
\* answered 400 with the missing-fields message, and no put_item is issued.
C2_MissingFields ==
    (/\ op = "post" /\ environ.TABLE_NAME
     /\ event.body.kind = "object" /\ Fields \ event.body.has # {})
    => /\ result.raised = NoExc
       /\ result.response.statusCode = 400
       /\ CarriesText(result.response, MissingFieldsText)
       /\ obs.puts = 0

\* C3: a retrieval whose lowercased parameter names are not exactly {id}
\* (no parameters, no parameter map, several, or one wrongly named) is
\* answered 400 and no lookup is made.
C3_ShapeValidation ==
    (op = "get" /\ environ.TABLE_NAME /\ ~KeySetIsId)
    => /\ result.raised = NoExc
       /\ result.response.statusCode = 400
       /\ obs.adapter = "not_called"
       /\ obs.gets = 0

C5_NeverRaises ==
    op = "get" => (result.raised = NoExc /\ WellFormed(result.response))

\* C6: an exception inside the submission handler is answered 500 with the
\* exception's text as the message.
C6_InternalError ==
    (op = "post" /\ obs.caught # NoExc)
    => /\ result.raised = NoExc
       /\ result.response.statusCode = 500
       /\ CarriesText(result.response, obs.caught.text)

\* C7: db_input never raises and returns a boolean: True only when the store
\* acknowledged the write with status 200, False on every failure, a failure
\* to create the client included.
C7_PutBoolean ==
    (op = "post" /\ HasAllFields /\ environ.TABLE_NAME)
    => /\ obs.adapter = "returned"
       /\ obs.ret \in BOOLEAN
       /\ (obs.ret => obs.cond = "ok")
       /\ (obs.cond # "ok" => ~obs.ret)

\* C8 as stated: once a record is stored under an id, no later invocation
\* changes it.
C8_Immutable ==
    [][\A k \in DOMAIN store : k \in DOMAIN store' /\ store'[k] = store[k]]_vars

\* C8 amended: a record stored under an id stays in the table and is changed
\* only by a later submission that drew the same id and whose write succeeded.
C8_ImmutableUnlessSameId ==
    [][\A k \in DOMAIN store :
          /\ k \in DOMAIN store'
          /\ (store'[k] # store[k] => (op' = "post" /\ obs'.id = k /\ obs'.ret))]_vars

C8_Witness ==
    /\ op = "post" /\ obs.adapter = "returned" /\ obs.ret
    /\ \E k \in DOMAIN store : k # obs.id

\* C9: every item in the table has the five attributes, each a string, and
\* its key is its id: 6 lowercase hexadecimal characters.
C9_Schema ==
    \A k \in DOMAIN store :
        /\ DOMAIN store[k] = Attributes
        /\ \A a \in Attributes : DOMAIN store[k][a] = {"S"}
        /\ store[k].id.S = k
        /\ Len(k) = IdWidth
        /\ \A i \in 1..Len(k) : k[i] \in HexChars
        /\ store[k].paste.S \in Seq(PasteChars \cup {"N", "o", "n", "e"})
        /\ store[k].creator_gh_user.S \in Creators
        /\ store[k].recipient_gh_username.S \in Recipients

C9_Witness ==
    \E k \in DOMAIN store : k[1] = "0" /\ store[k].paste.S # <<>>

\* C10: a submission that passes the required-field check reaches db_input,
\* and whether db_input returned True or False the answer is 200 with the
\* generated id.
C10_UncheckedWrite ==
    (op = "post" /\ environ.TABLE_NAME /\ HasAllFields)
    => /\ obs.adapter # "not_called"
       /\ (obs.adapter = "returned"
             => /\ result.response.statusCode = 200
                /\ result.response.body.key = "response"
                /\ result.response.body.value.id = obs.id)

\* a 200 answer whose id has no item in the table
C10_Witness ==
    /\ op = "post" /\ obs.adapter = "returned" /\ ~obs.ret
    /\ result.response.statusCode = 200
    /\ result.response.body.value.id \notin DOMAIN store

====
